---- MODULE Spec2Model ----
(***************************************************************************)
(* Model of the phrase-difficulty analyzer (scripts/phrase_difficulty.py)  *)
(* and of the batch driver that calls it (scripts/update-difficulty.py).   *)
(*                                                                         *)
(* Strings are sequences of one-character strings, so that lower(),        *)
(* isalnum(), split() and the syllable scan are computed character by      *)
(* character as the code does.  Floats are exact rationals <<num, den>>    *)
(* (den > 0, lowest terms); round(x, 1) is round-half-even to tenths.      *)
(***************************************************************************)
EXTENDS Integers, Sequences, FiniteSets, TLC

(***************************************************************************)
(* Characters and strings                                                  *)
(***************************************************************************)

\* str.lower() on one character (the upper-case letters of the word universe)
LowerChar(c) ==
    CASE c = "H" -> "h"
      [] c = "R" -> "r"
      [] c = "D" -> "d"
      [] c = "G" -> "g"
      [] OTHER -> c

\* str.isalnum() on one character
IsAlnum(c) == c \notin {" ", ",", "!", "\t"}

\* str.isspace() on one character
IsSpace(c) == c \in {" ", "\t"}

\* str.lower()
Lower(s) == [i \in 1..Len(s) |-> LowerChar(s[i])]

RECURSIVE FilterAlnum(_)
FilterAlnum(s) ==
    IF s = <<>> THEN <<>>
    ELSE IF IsAlnum(Head(s)) THEN <<Head(s)>> \o FilterAlnum(Tail(s))
    ELSE FilterAlnum(Tail(s))

\* word_clean = "".join(c for c in word.lower() if c.isalnum())
WordClean(word) == FilterAlnum(Lower(word))

RECURSIVE LStrip(_)
LStrip(s) == IF s # <<>> /\ IsSpace(Head(s)) THEN LStrip(Tail(s)) ELSE s

RECURSIVE RStrip(_)
RStrip(s) ==
    IF s # <<>> /\ IsSpace(s[Len(s)]) THEN RStrip(SubSeq(s, 1, Len(s) - 1)) ELSE s

\* str.strip()
Strip(s) == RStrip(LStrip(s))

\* the k-th smallest element of a set of numbers
Nth(S, k) == CHOOSE x \in S : Cardinality({y \in S : y < x}) = k - 1

\* (mutant) a split that takes a string of whitespace for one word
SplitNonEmpty(s) == IF s = <<>> THEN <<>> ELSE <<s>>

\* str.split(): the maximal runs of non-whitespace characters, in order
Split(s) ==
    LET starts == {i \in 1..Len(s) : ~IsSpace(s[i]) /\ (i = 1 \/ IsSpace(s[i - 1]))}
        ends == {i \in 1..Len(s) : ~IsSpace(s[i]) /\ (i = Len(s) \/ IsSpace(s[i + 1]))}
    IN  [k \in 1..Cardinality(starts) |-> SubSeq(s, Nth(starts, k), Nth(ends, k))]

\* " ".join(words)
RECURSIVE Join(_)
Join(ws) ==
    IF ws = <<>> THEN <<>>
    ELSE IF Len(ws) = 1 THEN ws[1]
    ELSE ws[1] \o <<" ">> \o Join(Tail(ws))

(***************************************************************************)
(* Exact rational arithmetic for the float computations                    *)
(***************************************************************************)

Abs(x) == IF x < 0 THEN -x ELSE x

RECURSIVE Gcd(_, _)
Gcd(a, b) == IF b = 0 THEN a ELSE Gcd(b, a % b)

\* the rational n/d in lowest terms, d > 0
Rat(n, d) ==
    LET g == Gcd(Abs(n), Abs(d))
        s == IF d < 0 THEN -1 ELSE 1
    IN  <<(s * n) \div g, (s * d) \div g>>

RInt(n) == <<n, 1>>
RAdd(a, b) == Rat(a[1] * b[2] + b[1] * a[2], a[2] * b[2])
RSub(a, b) == Rat(a[1] * b[2] - b[1] * a[2], a[2] * b[2])
RMul(a, b) == Rat(a[1] * b[1], a[2] * b[2])
RDiv(a, b) == Rat(a[1] * b[2], a[2] * b[1])
RLess(a, b) == a[1] * b[2] < b[1] * a[2]
RLeq(a, b) == a[1] * b[2] <= b[1] * a[2]
\* Python's min(a, b): b if b < a else a
RMin(a, b) == IF RLess(b, a) THEN b ELSE a

RECURSIVE RSum(_)
RSum(xs) == IF xs = <<>> THEN RInt(0) ELSE RAdd(Head(xs), RSum(Tail(xs)))

\* floor(n / d) for d > 0 and any integer n
FloorDiv(n, d) == IF n >= 0 THEN n \div d ELSE -((-n + d - 1) \div d)

\* round(x, digits) as the integer number of 1/scale units (scale = 10^digits):
\* the nearest one, ties to even
RoundTo(x, scale) ==
    LET n == scale * x[1]
        d == x[2]
        q == FloorDiv(n, d)
        r == n - q * d
    IN  IF 2 * r < d THEN q
        ELSE IF 2 * r > d THEN q + 1
        ELSE IF q % 2 = 0 THEN q ELSE q + 1

\* round(x, 1) in tenths, round(x, 2) in hundredths
Round1(x) == RoundTo(x, 10)
Round2(x) == RoundTo(x, 100)

(***************************************************************************)
(* The universe of the model: languages, words, phrases, external answers  *)
(***************************************************************************)

\* "de" and "en" are the languages of the analyzer's CLI; "de-DE" is one of
\* the language tags the batch driver passes on (supported_languages there)
Langs == {"de", "en", "de-DE"}

w_Hund == <<"H", "u", "n", "d">>
w_hund == <<"h", "u", "n", "d">>
\* 16 characters, 5 vowel runs
w_Realitaetsverlust ==
    <<"R", "e", "a", "l", "i", "t", "ä", "t", "s", "v", "e", "r", "l", "u", "s", "t">>
w_gehen == <<"g", "e", "h", "e", "n">>
w_dog == <<"d", "o", "g">>
w_Go == <<"G", "o">>
w_go == <<"g", "o">>
w_ice_cream == <<"i", "c", "e", " ", "c", "r", "e", "a", "m">>

\* the longest phrase of the universe is MaxWords words long
MaxWords == 11

RECURSIVE Repeat(_, _)
Repeat(w, n) == IF n = 0 THEN <<>> ELSE <<w>> \o Repeat(w, n - 1)

\* the phrases handed to analyze_phrase (strings; the code splits them) by
\* the processes that share the caches
Phrases ==
    { <<>>,
      w_Hund,
      w_hund,
      <<" ", "\t">>,
      <<" ">> \o w_hund \o <<" ", "\t">> \o w_Hund }

\* the phrases the scores are computed for
ScorePhrases ==
    Phrases \cup
    { <<" ">>,
      w_Realitaetsverlust,
      Join(<<w_Hund, w_Realitaetsverlust>>),
      Join(<<w_Realitaetsverlust, w_Realitaetsverlust, w_hund>>),
      Join(Repeat(w_hund, MaxWords)),
      <<"!">>,
      Join(<<w_Hund, <<"!">>>>) }

\* base forms a lexical entry may refer to
ExtLemmas == {w_gehen}

\* an entry block (=== subsection) of a page of the lexical reference: the
\* language of the section (== header) it stands in, whether it carries the
\* inflected-form tag, and the base form its first reference pattern names
\* (<<>>: no pattern matches)
Block(section, tag, ref) == [section |-> section, tag |-> tag, ref |-> ref]

\* page contents: a tagged block with a reference; an untagged block with a
\* reference; a tagged block without reference; an English section with an
\* untagged block followed by a tagged one; an English section with a tagged
\* block before a German section with an untagged block
Pages ==
    { << Block("Deutsch", TRUE, w_gehen) >>,
      << Block("Deutsch", FALSE, w_gehen) >>,
      << Block("Deutsch", TRUE, <<>>) >>,
      << Block("English", FALSE, w_gehen), Block("English", TRUE, w_gehen) >>,
      << Block("English", TRUE, w_gehen), Block("Deutsch", FALSE, <<>>) >> }

\* what the request to the lexical reference (urlopen + json.loads) can give:
\* a network/parse error, the page "-1" (no such entry), a page without
\* revisions, or a page with its content
LexResponses ==
    { [kind |-> "error",   content |-> <<>>],
      [kind |-> "missing", content |-> <<>>],
      [kind |-> "norev",   content |-> <<>>] }
    \cup { [kind |-> "page", content |-> c] : c \in Pages }

\* what GoogleTranslator.translate can give: an exception, nothing (None or
\* "", here <<>>), a string
TrResponses ==
    { [kind |-> "error", text |-> <<>>],
      [kind |-> "ok", text |-> <<>>],
      [kind |-> "ok", text |-> w_dog],
      [kind |-> "ok", text |-> w_Go] }

\* a cell of the rating column: a number, an empty cell, a text float() rejects
Num(n, d) == [txt |-> "num", val |-> Rat(n, d)]
EmptyCell == [txt |-> "", val |-> Rat(0, 1)]
NotANumber == [txt |-> "n/a", val |-> Rat(0, 1)]

\* the rows (Words, AOA) of the norms CSV the download can give
CsvTypical ==
    << [word |-> w_dog, aoa |-> Num(5, 2)],
       [word |-> w_ice_cream, aoa |-> Num(3, 1)],
       [word |-> w_go, aoa |-> Num(3, 2)],
       [word |-> w_gehen, aoa |-> EmptyCell],
       [word |-> w_Hund, aoa |-> Num(6, 1)] >>

CsvExtreme ==
    << [word |-> w_dog, aoa |-> Num(-40, 1)],
       [word |-> w_go, aoa |-> Num(20, 1)],
       [word |-> w_hund, aoa |-> Num(0, 1)] >>

\* a rating that puts the score of "Hund" just below 40
CsvBoundary ==
    << [word |-> w_dog, aoa |-> Num(44, 5)] >>

CsvNonNumeric ==
    << [word |-> w_dog, aoa |-> Num(5, 2)],
       [word |-> w_go, aoa |-> NotANumber],
       [word |-> w_Hund, aoa |-> Num(6, 1)] >>

\* what urlopen(url).read() can give in _download_glasgow_norms: an exception,
\* data of at most 10000 bytes, or a CSV of more than 10000 bytes
Downloads ==
    { [kind |-> "error", rows |-> <<>>],
      [kind |-> "small", rows |-> <<>>],
      [kind |-> "csv", rows |-> CsvTypical],
      [kind |-> "csv", rows |-> CsvExtreme],
      [kind |-> "csv", rows |-> CsvNonNumeric] }

(***************************************************************************)
(* The transliteration and the feature table (epitran, panphon)            *)
(***************************************************************************)

\* the length of a panphon feature vector
NumFeatures == 24

\* a vector with k entries different from 0
VectorWith(k) == [i \in 1..NumFeatures |-> IF i <= k THEN (IF i % 2 = 0 THEN 1 ELSE -1) ELSE 0]

\* ft.word_to_vector_list(phoneme): the vectors of a segment, none if unknown
word_to_vector_list(phoneme) ==
    CASE phoneme \in {"a", "e", "i", "u", "E"} -> <<VectorWith(16)>>
      [] phoneme \in {"h", "n", "l", "r", "s"} -> <<VectorWith(21)>>
      [] phoneme \in {"d", "t", "f"} -> <<VectorWith(24)>>
      [] OTHER -> <<>>

\* Epitran.transliterate, per character: letters are lower-cased, "ä" becomes
\* "E", a final "d" devoices in German, other characters stay as they are
RECURSIVE transliterate(_, _)
transliterate(word, language) ==
    IF word = <<>> THEN <<>>
    ELSE LET c == LowerChar(Head(word))
             seg == IF c = "ä" THEN "E"
                    ELSE IF c = "d" /\ Len(word) = 1 /\ language = "de" THEN "t"
                    ELSE c
         IN  <<seg>> \o transliterate(Tail(word), language)

\* ft.ipa_segs: the segments of an IPA string; characters that are no
\* segments (blanks, punctuation) are left out
ipa_segs(ipa) == FilterAlnum(ipa)

\* Optional values: Python's None and a value
Some(v) == [some |-> TRUE, val |-> v]
NoneStr == [some |-> FALSE, val |-> <<>>]
NoneRat == [some |-> FALSE, val |-> <<0, 1>>]

\* text_to_ipa: None for a language without converter, else the IPA string
text_to_ipa(text, language) ==
    IF language \notin {"en", "de"} THEN NoneStr ELSE Some(transliterate(text, language))

\* the number of entries of a vector different from 0
Marked(vec) == Cardinality({i \in 1..Len(vec) : vec[i] # 0})

RECURSIVE TotalComplexity(_)
TotalComplexity(phonemes) ==
    IF phonemes = <<>> THEN RInt(0)
    ELSE LET features == word_to_vector_list(Head(phonemes))
             c == IF features = <<>> THEN RInt(1)
                  ELSE Rat(Marked(features[1]), Len(features[1]))
         IN  RAdd(c, TotalComplexity(Tail(phonemes)))

\* (mutant) calculate_phoneme_complexity counting a segment without feature
\* vector as 0
calculate_phoneme_complexity_known_only(ipa) ==
    LET phonemes == ipa_segs(ipa)
        known == SelectSeq(phonemes, LAMBDA ph : word_to_vector_list(ph) # <<>>)
    IN  IF phonemes = <<>> THEN RInt(0)
        ELSE RDiv(RSub(TotalComplexity(phonemes), RInt(Len(phonemes) - Len(known))),
                  RInt(Len(phonemes)))

calculate_phoneme_complexity(ipa) ==
    LET phonemes == ipa_segs(ipa)
    IN  IF phonemes = <<>> THEN RInt(0)
        ELSE RDiv(TotalComplexity(phonemes), RInt(Len(phonemes)))

(***************************************************************************)
(* Pure parts of the analyzer                                              *)
(***************************************************************************)

Vowels == {"a", "e", "i", "o", "u", "ä", "ö", "ü", "A", "E", "I", "O", "U", "Ä", "Ö", "Ü"}

RECURSIVE SyllableScan(_, _)
SyllableScan(word, prev_was_vowel) ==
    IF word = <<>> THEN 0
    ELSE LET is_vowel == Head(word) \in Vowels
         IN  (IF is_vowel /\ ~prev_was_vowel THEN 1 ELSE 0)
             + SyllableScan(Tail(word), is_vowel)

Max(a, b) == IF a > b THEN a ELSE b

\* (mutant) calculate_syllable_count without the lower bound 1
calculate_syllable_count_unclamped(word) == SyllableScan(word, FALSE)

calculate_syllable_count(word) == Max(1, SyllableScan(word, FALSE))

_get_difficulty_level(score) ==
    IF RLess(score, RInt(20)) THEN "Very Easy"
    ELSE IF RLess(score, RInt(40)) THEN "Easy"
    ELSE IF RLess(score, RInt(60)) THEN "Medium"
    ELSE IF RLess(score, RInt(80)) THEN "Hard"
    ELSE "Very Hard"

(***************************************************************************)
(* The AoA store, the caches and the lookups                               *)
(***************************************************************************)

\* a directory of files as a function from file key to content
EmptyDir == <<>>
WriteFile(dir, key, content) ==
    [k \in DOMAIN dir \cup {key} |-> IF k = key THEN content ELSE dir[k]]

\* the word of a CSV row contains a space
RECURSIVE HasSpace(_)
HasSpace(s) == s # <<>> /\ (Head(s) = " " \/ HasSpace(Tail(s)))

\* the loop of _download_glasgow_norms over the CSV rows: one file per word
\* with a rating; float() raises on a rating that is no number, and the files
\* written so far stay
RECURSIVE SplitRows(_, _)
SplitRows(rows, files) ==
    IF rows = <<>> THEN [files |-> files, raised |-> FALSE]
    ELSE LET row == Head(rows)
             word == Strip(row.word)
         IN  IF word = <<>> \/ HasSpace(word) THEN SplitRows(Tail(rows), files)
             ELSE IF row.aoa.txt = "" THEN SplitRows(Tail(rows), files)
             ELSE IF row.aoa.txt # "num" THEN [files |-> files, raised |-> TRUE]
             ELSE SplitRows(Tail(rows), WriteFile(files, Lower(word), row.aoa.val))

\* _download_glasgow_norms: the store after it and how it ended ("True",
\* "False", or "raised")
_download_glasgow_norms(store, d) ==
    IF d.kind = "error" THEN [store |-> store, end |-> "raised"]
    ELSE IF d.kind = "small" THEN [store |-> store, end |-> "False"]
    ELSE LET r == SplitRows(d.rows, EmptyDir)
         IN  [store |-> [exists |-> TRUE, files |-> r.files, built |-> ~r.raised],
              end |-> IF r.raised THEN "raised" ELSE "True"]

\* _load_aoa_data: the store after it and how it ended ("ok", "raised": an
\* exception leaves __init__, "exit": sys.exit(1))
_load_aoa_data(store, d) ==
    IF ~store.exists
    THEN LET r == _download_glasgow_norms(store, d)
         IN  [store |-> r.store,
              end |-> IF r.end = "True" THEN "ok"
                      ELSE IF r.end = "False" THEN "exit" ELSE "raised"]
    ELSE [store |-> store, end |-> "ok"]

\* the adult AoA of get_aoa
AdultAoa == 16

\* (mutant) get_aoa returning 0.0 for a word it does not find
get_aoa_zero_fallback(store, word, use_adult_fallback) ==
    LET word_lower == Strip(Lower(word))
    IN  IF word_lower \in DOMAIN store.files THEN [some |-> TRUE, val |-> store.files[word_lower]]
        ELSE [some |-> TRUE, val |-> <<0, 1>>]

\* get_aoa
get_aoa(store, word, use_adult_fallback) ==
    LET word_lower == Strip(Lower(word))
    IN  IF word_lower \in DOMAIN store.files THEN Some(store.files[word_lower])
        ELSE IF use_adult_fallback THEN Some(RInt(AdultAoa))
        ELSE NoneRat

\* the cache file of a word: _get_wiktionary_cache_file, _get_translation_cache_file
CacheFile(lang, word) == <<lang, WordClean(word)>>

_load_lemma_from_cache(lc, lang, word) ==
    LET cache_file == CacheFile(lang, word)
    IN  IF cache_file \in DOMAIN lc
        THEN LET lemma == Strip(lc[cache_file])
             IN  IF lemma # <<>> THEN Some(lemma) ELSE NoneStr
        ELSE NoneStr

_load_translation_from_cache(tc, source_lang, word) ==
    LET cache_file == CacheFile(source_lang, word)
    IN  IF cache_file \in DOMAIN tc THEN Some(Strip(tc[cache_file])) ELSE NoneStr

\* calls counted per cache file, up to MaxCalls
MaxCalls == 3
Count(calls, key) == IF key \in DOMAIN calls THEN calls[key] ELSE 0
Counted(calls, key) ==
    WriteFile(calls, key, IF Count(calls, key) < MaxCalls THEN Count(calls, key) + 1 ELSE MaxCalls)

\* the smallest element of a non-empty set of numbers
MinOf(S) == CHOOSE x \in S : \A y \in S : x <= y

\* _extract_language_section: the blocks from the header of the language to
\* the next language header; the whole content if the language has no name
\* here or no header
_extract_language_section(content, lang) ==
    IF content = <<>> \/ lang \notin {"de", "en"} THEN content
    ELSE LET lang_name == IF lang = "de" THEN "Deutsch" ELSE "English"
             matches == {i \in 1..Len(content) : content[i].section = lang_name}
         IN  IF matches = {} THEN content
             ELSE LET start == MinOf(matches)
                      headers == {j \in (start + 1)..Len(content) :
                                     content[j].section # content[j - 1].section}
                  IN  SubSeq(content, start,
                             IF headers = {} THEN Len(content) ELSE MinOf(headers) - 1)

\* _extract_lemma_from_wiktionary: the base form, <<>> for None.  German: only
\* the first block of the section counts, and only if it carries the tag.
\* English: the tag anywhere in the section, the reference that follows it
_extract_lemma_from_wiktionary(content, lang) ==
    LET lang_content == _extract_language_section(content, lang)
    IN  IF lang_content = <<>> THEN <<>>
        ELSE IF lang = "de"
        THEN LET primary_content == lang_content[1]
             IN  IF ~primary_content.tag THEN <<>> ELSE primary_content.ref
        ELSE IF lang = "en"
        THEN LET marked == {i \in 1..Len(lang_content) : lang_content[i].tag}
             IN  IF marked = {} THEN <<>> ELSE lang_content[MinOf(marked)].ref
        ELSE <<>>

\* (mutant) the except branch returns the word without caching it
LemmaOnErrorNotCached(word) == [ret |-> word, save |-> FALSE, saved |-> word]

\* get_lemma_from_wiktionary after a cache miss, given what the request gave:
\* what is returned and what is written to the cache file
LemmaOnError(word) == [ret |-> word, save |-> TRUE, saved |-> word]

LemmaFromResponse(resp, word, lang) ==
    IF resp.kind = "error" THEN LemmaOnError(word)
    ELSE IF resp.kind = "missing" THEN [ret |-> word, save |-> TRUE, saved |-> word]
    ELSE IF resp.kind = "page"
    THEN LET lemma == _extract_lemma_from_wiktionary(resp.content, lang)
         IN  IF lemma # <<>> THEN [ret |-> lemma, save |-> TRUE, saved |-> lemma]
             ELSE [ret |-> word, save |-> TRUE, saved |-> word]
    ELSE [ret |-> word, save |-> TRUE, saved |-> word]

\* get_lemma_from_wiktionary: every way the call can end, with the caches and
\* the call counts after it
get_lemma_from_wiktionary(lc, lexn, word, lang) ==
    LET cached == _load_lemma_from_cache(lc, lang, word)
        key == CacheFile(lang, word)
    IN  IF cached.some
        THEN {[ret |-> cached.val, raised |-> "", lc |-> lc, lexn |-> lexn, resp |-> "hit",
               entry |-> <<>>]}
        ELSE IF lang \notin {"de", "en"}
        THEN {[ret |-> <<>>, raised |-> "KeyError", lc |-> lc, lexn |-> lexn, resp |-> "none",
               entry |-> <<>>]}
        ELSE { LET r == LemmaFromResponse(resp, word, lang)
               IN  [ret |-> r.ret, raised |-> "",
                    lc |-> IF r.save THEN WriteFile(lc, key, r.saved) ELSE lc,
                    lexn |-> Counted(lexn, key), resp |-> resp.kind, entry |-> resp.content]
               : resp \in LexResponses }

\* translate_to_english after a cache miss, given what the translator gave
TranslationResult(resp, word) ==
    IF resp.text # <<>> /\ Lower(resp.text) # Lower(word) THEN Lower(resp.text)
    ELSE Lower(word)

\* (mutant) translate_to_english without the short cut for English
translate_to_english_without_shortcut(tc, trn, word, source_lang) ==
    LET cached == _load_translation_from_cache(tc, source_lang, word)
        key == CacheFile(source_lang, word)
    IN  IF cached.some
        THEN {[ret |-> cached.val, raised |-> "", tc |-> tc, trn |-> trn, resp |-> "hit"]}
        ELSE { IF resp.kind = "error"
               THEN [ret |-> <<>>, raised |-> "TranslationError", tc |-> tc,
                     trn |-> trn + 1, resp |-> resp.kind]
               ELSE [ret |-> TranslationResult(resp, word), raised |-> "",
                     tc |-> WriteFile(tc, key, TranslationResult(resp, word)),
                     trn |-> trn + 1, resp |-> resp.kind]
               : resp \in TrResponses }

\* translate_to_english: every way the call can end; trn counts the calls of
\* the translator
translate_to_english(tc, trn, word, source_lang) ==
    IF source_lang = "en"
    THEN {[ret |-> Lower(word), raised |-> "", tc |-> tc, trn |-> trn, resp |-> "none"]}
    ELSE LET cached == _load_translation_from_cache(tc, source_lang, word)
             key == CacheFile(source_lang, word)
         IN  IF cached.some
             THEN {[ret |-> cached.val, raised |-> "", tc |-> tc, trn |-> trn, resp |-> "hit"]}
             ELSE { IF resp.kind = "error"
                    THEN [ret |-> <<>>, raised |-> "TranslationError", tc |-> tc,
                          trn |-> trn + 1, resp |-> resp.kind]
                    ELSE [ret |-> TranslationResult(resp, word), raised |-> "",
                          tc |-> WriteFile(tc, key, TranslationResult(resp, word)),
                          trn |-> trn + 1, resp |-> resp.kind]
                    : resp \in TrResponses }

(***************************************************************************)
(* analyze_phrase                                                          *)
(***************************************************************************)

\* the score components (lines 607-632)
length_score(avg_word_length) ==
    RMin(RInt(25), RMul(RDiv(avg_word_length, RInt(15)), RInt(25)))

word_count_score(word_count) ==
    RMin(RInt(10), RMul(RDiv(RInt(word_count), RInt(10)), RInt(10)))

\* (mutant) the AoA component without its cap
aoa_score_uncapped(avg_aoa) == RMul(RDiv(RSub(avg_aoa, RInt(2)), RInt(16)), RInt(40))

aoa_score(avg_aoa) ==
    RMin(RInt(40), RMul(RDiv(RSub(avg_aoa, RInt(2)), RInt(16)), RInt(40)))

syllable_score(syllable_density) ==
    RMin(RInt(10), RMul(RDiv(syllable_density, RInt(4)), RInt(10)))

phoneme_score(phoneme_complexity) == RMul(phoneme_complexity, RInt(15))

\* (mutant) the word count component is not added to the score
difficulty_total_without_word_count(ls, wcs, as, ss, ps) ==
    RAdd(RAdd(RAdd(RAdd(RInt(0), ls), as), ss), ps)

\* difficulty_score after the five "difficulty_score += ..." statements
difficulty_total(ls, wcs, as, ss, ps) ==
    RAdd(RAdd(RAdd(RAdd(RAdd(RInt(0), ls), wcs), as), ss), ps)

\* the entry of word_details for a word, given its lemma and the English word
\* (lines 557-575)
WordDetail(store, word, lemma, english_word, language) ==
    LET aoa == get_aoa(store, english_word, TRUE)
        syllables == calculate_syllable_count(word)
        ipa == text_to_ipa(word, language)
        phoneme_complexity ==
            IF ipa.some /\ ipa.val # <<>>
            THEN Some(calculate_phoneme_complexity(ipa.val))
            ELSE NoneRat
    IN  [word |-> word,
         lemma |-> IF lemma # word THEN Some(lemma) ELSE NoneStr,
         english |-> IF language # "en" THEN Some(english_word) ELSE NoneStr,
         aoa |-> aoa,
         syllables |-> syllables,
         phoneme_complexity |-> phoneme_complexity,
         ipa |-> ipa]

\* the body of the loop over the words (lines 551-578), from the state st of
\* the call: every way it can go on
AnalyzeWord(st, store, word, language) ==
    UNION {
      IF lo.raised # ""
      THEN {[st EXCEPT !.raised = lo.raised, !.lc = lo.lc, !.lexn = lo.lexn]}
      ELSE {
        IF to.raised # ""
        THEN [st EXCEPT !.raised = to.raised, !.lc = lo.lc, !.lexn = lo.lexn,
                        !.tc = to.tc, !.trn = to.trn]
        ELSE LET detail == WordDetail(store, word, lo.ret, to.ret, language)
             IN  [st EXCEPT !.lc = lo.lc, !.lexn = lo.lexn, !.tc = to.tc, !.trn = to.trn,
                            !.word_details = Append(@, detail),
                            !.aoa_scores = IF detail.aoa.some THEN Append(@, detail.aoa.val)
                                           ELSE @]
        : to \in translate_to_english(st.tc, st.trn, lo.ret, language) }
      : lo \in get_lemma_from_wiktionary(st.lc, st.lexn, word, language) }

RECURSIVE AnalyzeWords(_, _, _, _)
AnalyzeWords(st, store, words, language) ==
    IF words = <<>> \/ st.raised # "" THEN {st}
    ELSE UNION { AnalyzeWords(s2, store, Tail(words), language)
                 : s2 \in AnalyzeWord(st, store, Head(words), language) }

RECURSIVE SumLen(_)
SumLen(words) == IF words = <<>> THEN 0 ELSE Len(Head(words)) + SumLen(Tail(words))

RECURSIVE SumSyllables(_)
SumSyllables(words) ==
    IF words = <<>> THEN 0
    ELSE calculate_syllable_count(Head(words)) + SumSyllables(Tail(words))

\* the per-word complexities that are defined and > 0 (lines 584-588)
RECURSIVE PositiveComplexities(_)
PositiveComplexities(word_details) ==
    IF word_details = <<>> THEN <<>>
    ELSE LET pc == Head(word_details).phoneme_complexity
         IN  (IF pc.some /\ RLess(RInt(0), pc.val) THEN <<pc.val>> ELSE <<>>)
             \o PositiveComplexities(Tail(word_details))

\* (mutant) the phoneme complexity of a phrase as the mean over all words
\* that have a value, zeros included
AggregateComplexityWithZeros(word_details) ==
    LET defined == SelectSeq(word_details, LAMBDA wd : wd.phoneme_complexity.some)
    IN  IF defined # <<>>
        THEN RDiv(RSum([i \in 1..Len(defined) |-> defined[i].phoneme_complexity.val]),
                  RInt(Len(defined)))
        ELSE Rat(3, 4)

\* the phoneme complexity of a phrase (lines 583-595)
AggregateComplexity(word_details) ==
    LET phoneme_complexities == PositiveComplexities(word_details)
    IN  IF phoneme_complexities # <<>>
        THEN RDiv(RSum(phoneme_complexities), RInt(Len(phoneme_complexities)))
        ELSE Rat(3, 4)

\* the record analyze_phrase returns for the words of a non-empty phrase
\* (lines 540-546 and 580-656)
PhraseRecord(phrase, language, words, aoa_scores, word_details) ==
    LET word_count == Len(words)
        char_count == SumLen(words)
        avg_word_length == Rat(char_count, word_count)
        total_syllables == SumSyllables(words)
        avg_aoa == IF aoa_scores # <<>>
                   THEN RDiv(RSum(aoa_scores), RInt(Len(aoa_scores)))
                   ELSE RInt(AdultAoa)
        phoneme_complexity == AggregateComplexity(word_details)
        ls == length_score(avg_word_length)
        wcs == word_count_score(word_count)
        as == aoa_score(avg_aoa)
        syllable_density == Rat(total_syllables, word_count)
        ss == syllable_score(syllable_density)
        ps == phoneme_score(phoneme_complexity)
        difficulty_score == difficulty_total(ls, wcs, as, ss, ps)
    IN  [phrase |-> phrase,
         language |-> language,
         word_count |-> word_count,
         char_count |-> char_count,
         avg_word_length |-> Round2(avg_word_length),
         total_syllables |-> total_syllables,
         avg_syllables_per_word |-> Round2(syllable_density),
         avg_aoa |-> IF avg_aoa # RInt(0) THEN [some |-> TRUE, val |-> Round2(avg_aoa)]
                     ELSE [some |-> FALSE, val |-> 0],
         aoa_available_for |-> <<Len(aoa_scores), word_count>>,
         phoneme_complexity |-> phoneme_complexity,
         difficulty_score |-> Round1(difficulty_score),
         difficulty_level |-> _get_difficulty_level(difficulty_score),
         word_details |-> word_details,
         score_components |->
             [length_score |-> Round1(ls),
              word_count_score |-> Round1(wcs),
              aoa_score |-> Round1(as),
              syllable_score |-> Round1(ss),
              phoneme_score |-> Round1(ps)]]

\* analyze_phrase: every way the call can end (kind "empty": the error record
\* of line 537; "full": the record of line 634; "raised": an exception), with
\* the caches and call counts after it
analyze_phrase(store, lc, tc, lexn, phrase, language) ==
    LET words == Split(phrase)
    IN  IF words = <<>>
        THEN {[kind |-> "empty", raised |-> "",
               ret |-> [error |-> "Empty phrase", difficulty_score |-> 0],
               lc |-> lc, tc |-> tc, lexn |-> lexn, trn |-> 0]}
        ELSE { IF st.raised # ""
               THEN [kind |-> "raised", raised |-> st.raised,
                     ret |-> [error |-> st.raised, difficulty_score |-> 0],
                     lc |-> st.lc, tc |-> st.tc, lexn |-> st.lexn, trn |-> st.trn]
               ELSE [kind |-> "full", raised |-> "",
                     ret |-> PhraseRecord(phrase, language, words, st.aoa_scores, st.word_details),
                     lc |-> st.lc, tc |-> st.tc, lexn |-> st.lexn, trn |-> st.trn]
               : st \in AnalyzeWords([lc |-> lc, tc |-> tc, lexn |-> lexn, trn |-> 0,
                                      raised |-> "", aoa_scores |-> <<>>,
                                      word_details |-> <<>>],
                                     store, words, language) }

(***************************************************************************)
(* State: the files under ~/.cache/pp and one process using the analyzer   *)
(***************************************************************************)

VARIABLES
    aoa_store,          \* the directory glasgow-norm: exists, its files, and
                        \* (history) whether its construction ran to its end
    lemma_cache,        \* the files of wiktionary/<lang>/
    translation_cache,  \* the files of translations-to-en/<lang>/
    lex_calls,          \* (history) requests to the lexical reference per cache file
    analyzer,           \* the analyzer of the running process: "none" or "ready"
    last,               \* (history) the last call and how it ended
    queue,              \* the (phrase, lang) arguments the pool has not started yet
    pool,               \* the calls of analyze_phrase running at the same time:
                        \* for each worker, where it is and its local variables
    float_ties          \* how the float arithmetic of score_to_level resolves, for a
                        \* score, a product that lies exactly between two integers
                        \* (TRUE: the float is above the middle, round() goes up)
VARIABLE
    batch               \* the batch driver (update-difficulty.py): its phrases file,
                        \* the global _analyzer_instance and the threads of its pool

vars == <<aoa_store, lemma_cache, translation_cache, lex_calls, analyzer, last, queue, pool,
         float_ties, batch>>

\* the batch driver is not running
NoBatch == [pc |-> "off"]

\* score_to_level is not called
NoTies == <<>>

\* no pool is running
NoQueue == [language |-> "", phrases |-> <<>>]

\* the workers that call analyze_phrase at the same time
NumWorkers == 2
Workers == 1..NumWorkers

IdleWorker ==
    [pc |-> "idle", phrase |-> <<>>, language |-> "", words |-> <<>>, lemma |-> <<>>,
     english |-> <<>>, pending |-> <<>>, aoa_scores |-> <<>>, word_details |-> <<>>,
     kind |-> "", ret |-> [error |-> "", difficulty_score |-> 0]]

Init ==
    /\ aoa_store = [exists |-> FALSE, files |-> EmptyDir, built |-> FALSE]
    /\ lemma_cache = EmptyDir
    /\ translation_cache = EmptyDir
    /\ lex_calls = EmptyDir
    /\ analyzer = "none"
    /\ last = [op |-> "none"]
    /\ queue = NoQueue
    /\ pool = [w \in Workers |-> IdleWorker]
    /\ float_ties = NoTies
    /\ batch = NoBatch

\* PhraseDifficultyAnalyzer() in a process that has no analyzer (the CLI's
\* main, or get_analyzer of the batch driver): __init__ runs _load_aoa_data;
\* if that raises or exits the process has no analyzer
Construct(d) ==
    /\ analyzer = "none"
    /\ LET r == _load_aoa_data(aoa_store, d)
       IN  /\ aoa_store' = r.store
           /\ analyzer' = IF r.end = "ok" THEN "ready" ELSE "none"
           /\ last' = [op |-> "construct", end |-> r.end]
    /\ UNCHANGED <<lemma_cache, translation_cache, lex_calls, queue, pool, float_ties, batch>>

\* the process ends; the files stay
ProcessExit ==
    /\ analyzer = "ready"
    /\ analyzer' = "none"
    /\ last' = [op |-> "exit"]
    /\ UNCHANGED <<aoa_store, lemma_cache, translation_cache, lex_calls, queue, pool, float_ties, batch>>

\* the call repeats the last call, which returned
Rerun(phrase, language) ==
    /\ last.op = "analyze_phrase"
    /\ last.kind # "raised"
    /\ last.phrase = phrase
    /\ last.language = language

\* analyzer.analyze_phrase(phrase, language); last.tr_calls counts the calls
\* of the translator, last.before is the score of the call it repeats
AnalyzePhrase(phrase, language) ==
    /\ analyzer = "ready"
    /\ \E o \in analyze_phrase(aoa_store, lemma_cache, translation_cache,
                               lex_calls, phrase, language) :
          /\ lemma_cache' = o.lc
          /\ translation_cache' = o.tc
          /\ lex_calls' = o.lexn
          /\ last' = [op |-> "analyze_phrase", phrase |-> phrase, language |-> language,
                      kind |-> o.kind, raised |-> o.raised, ret |-> o.ret,
                      tr_calls |-> o.trn,
                      rerun |-> Rerun(phrase, language),
                      before |-> IF Rerun(phrase, language)
                                 THEN last.ret.difficulty_score ELSE 0]
    /\ UNCHANGED <<aoa_store, analyzer, queue, pool, float_ties, batch>>

\* the words handed to get_lemma_from_wiktionary and translate_to_english
Words == {w_Hund, w_hund}

\* analyzer.get_lemma_from_wiktionary(word, lang)
GetLemma(word, lang) ==
    /\ analyzer = "ready"
    /\ \E o \in get_lemma_from_wiktionary(lemma_cache, lex_calls, word, lang) :
          /\ lemma_cache' = o.lc
          /\ lex_calls' = o.lexn
          /\ last' = [op |-> "get_lemma", word |-> word, language |-> lang,
                      raised |-> o.raised, ret |-> o.ret, resp |-> o.resp,
                      entry |-> o.entry]
    /\ UNCHANGED <<aoa_store, translation_cache, analyzer, queue, pool, float_ties, batch>>

\* the languages translate_to_english is called for directly
TranslateLangs == {"de", "en"}

\* analyzer.translate_to_english(word, source_lang); last.resp tells how the
\* call was answered: "none" is the return of line 405, before the cache is read
Translate(word, source_lang) ==
    /\ analyzer = "ready"
    /\ \E o \in translate_to_english(translation_cache, 0, word, source_lang) :
          /\ translation_cache' = o.tc
          /\ last' = [op |-> "translate", word |-> word, language |-> source_lang,
                      raised |-> o.raised, ret |-> o.ret, resp |-> o.resp,
                      tr_calls |-> o.trn]
    /\ UNCHANGED <<aoa_store, lemma_cache, lex_calls, analyzer, queue, pool, float_ties, batch>>

Next ==
    \/ \E d \in Downloads : Construct(d)
    \/ ProcessExit
    \/ \E p \in Phrases, l \in Langs : AnalyzePhrase(p, l)
    \/ \E w \in Words, l \in Langs : GetLemma(w, l)
    \/ \E w \in Words, l \in TranslateLangs : Translate(w, l)

Spec == Init /\ [][Next]_vars

(***************************************************************************)
(* The scores of single calls: a built store, empty caches, one call       *)
(***************************************************************************)

\* the stores _download_glasgow_norms builds from the CSVs it accepts
BuiltStores ==
    { _download_glasgow_norms([exists |-> FALSE, files |-> EmptyDir, built |-> FALSE], d).store
      : d \in {d \in Downloads : d.kind = "csv"}
              \cup {[kind |-> "csv", rows |-> CsvBoundary]} }

InitScore ==
    /\ aoa_store \in BuiltStores
    /\ lemma_cache = EmptyDir
    /\ translation_cache = EmptyDir
    /\ lex_calls = EmptyDir
    /\ analyzer = "ready"
    /\ last = [op |-> "none"]
    /\ queue = NoQueue
    /\ pool = [w \in Workers |-> IdleWorker]
    /\ float_ties = NoTies
    /\ batch = NoBatch

NextScore ==
    \E p \in ScorePhrases, l \in Langs : last.op = "none" /\ AnalyzePhrase(p, l)

SpecScore == InitScore /\ [][NextScore]_vars

(***************************************************************************)
(* The pure functions: get_aoa and calculate_syllable_count of the         *)
(* analyzer, score_to_level of the batch driver                            *)
(***************************************************************************)

\* score_ranges of score_to_level
ScoreRanges ==
    [lang \in {"en-GB", "de-DE", "fr-FR"} |->
        CASE lang = "en-GB" -> [min |-> Rat(168, 10), max |-> Rat(483, 10)]
          [] lang = "de-DE" -> [min |-> Rat(228, 10), max |-> Rat(660, 10)]
          [] lang = "fr-FR" -> [min |-> Rat(417, 10), max |-> Rat(664, 10)]]

Min(a, b) == IF a < b THEN a ELSE b

\* x lies exactly between two integers
IsTie(x) == 2 * (x[1] - FloorDiv(x[1], x[2]) * x[2]) = x[2]

\* round(v) of a float v computed for the exact value x: the nearest integer;
\* where x is exactly between two integers the float's error decides (up)
RoundFloat(x, up) ==
    IF IsTie(x) THEN FloorDiv(x[1], x[2]) + (IF up THEN 1 ELSE 0)
    ELSE RoundTo(x, 1)

\* (mutant) score_to_level without the clamp to 1..1000
score_to_level_unclamped(score, lang) ==
    IF lang \notin DOMAIN ScoreRanges
    THEN RoundTo(RMul(score, RInt(10)), 1)
    ELSE LET normalized == RDiv(RSub(score, ScoreRanges[lang].min),
                                RSub(ScoreRanges[lang].max, ScoreRanges[lang].min))
         IN  RoundTo(RMul(normalized, RInt(999)), 1) + 1

\* (mutant) score_to_level measuring the score from the upper end of the range
score_to_level_from_max(score, lang) ==
    IF lang \notin DOMAIN ScoreRanges
    THEN Max(1, Min(1000, RoundTo(RMul(RSub(RInt(100), score), RInt(10)), 1)))
    ELSE LET normalized == RDiv(RSub(ScoreRanges[lang].max, score),
                                RSub(ScoreRanges[lang].max, ScoreRanges[lang].min))
         IN  Max(1, Min(1000, RoundTo(RMul(normalized, RInt(999)), 1) + 1))

score_to_level(score, lang) ==
    IF lang \notin DOMAIN ScoreRanges
    THEN Max(1, Min(1000, RoundTo(RMul(score, RInt(10)), 1)))
    ELSE LET min_score == ScoreRanges[lang].min
             max_score == ScoreRanges[lang].max
             normalized == RDiv(RSub(score, min_score), RSub(max_score, min_score))
             product == RMul(normalized, RInt(999))
             level == RoundFloat(product, IsTie(product) /\ float_ties[score]) + 1
         IN  Max(1, Min(1000, level))

\* the languages score_to_level is called with: the calibrated ones and one
\* without calibration
LevelLangs == {"en-GB", "de-DE", "fr-FR", "de"}

\* the scores (in tenths, as analyze_phrase reports them) score_to_level is
\* called with: below, at and above the ends of the ranges, and 23.6 and 25.2,
\* for which the de-DE product is exactly between two integers
LevelScores ==
    {-50, 0, 5, 50, 168, 228, 236, 252, 417, 483, 484, 660, 664, 665, 1000, 1500}

TieScores ==
    { Rat(k, 10) : k \in { k \in LevelScores : \E lang \in DOMAIN ScoreRanges :
        IsTie(RMul(RDiv(RSub(Rat(k, 10), ScoreRanges[lang].min),
                        RSub(ScoreRanges[lang].max, ScoreRanges[lang].min)),
                   RInt(999))) } }

\* the words get_aoa is called with
AoaWords ==
    { w_dog, <<"D", "o", "g">>, <<"d", "o", "g", ",">>, <<"d", "o", "g", "!">>,
      <<" ", "d", "o", "g", " ">>, w_hund, w_gehen, w_ice_cream,
      <<"z", "z", "z", "q", "q", "q">>, <<>> }

\* the words calculate_syllable_count is called with
SyllableWords ==
    { <<>>, w_Hund, w_Realitaetsverlust, w_ice_cream, <<"x", "y", "z">>,
      <<"Ä", "ö", "l">>, <<"A", "u", "e", "n">>, <<"ü", "b", "E", "r">>, <<"!">> }

InitPure ==
    /\ aoa_store = _download_glasgow_norms(
                       [exists |-> FALSE, files |-> EmptyDir, built |-> FALSE],
                       [kind |-> "csv", rows |-> CsvTypical]).store
    /\ lemma_cache = EmptyDir
    /\ translation_cache = EmptyDir
    /\ lex_calls = EmptyDir
    /\ analyzer = "ready"
    /\ last = [op |-> "none"]
    /\ queue = NoQueue
    /\ pool = [w \in Workers |-> IdleWorker]
    /\ float_ties \in [TieScores -> BOOLEAN]
    /\ batch = NoBatch

PureUnchanged ==
    UNCHANGED <<aoa_store, lemma_cache, translation_cache, lex_calls, analyzer, queue,
                pool, float_ties, batch>>

\* analyzer.get_aoa(word, use_adult_fallback)
GetAoa(word, use_adult_fallback) ==
    /\ analyzer = "ready"
    /\ last' = [op |-> "get_aoa", word |-> word, fallback |-> use_adult_fallback,
                ret |-> get_aoa(aoa_store, word, use_adult_fallback)]
    /\ PureUnchanged

\* analyzer.calculate_syllable_count(word)
SyllableCount(word) ==
    /\ analyzer = "ready"
    /\ last' = [op |-> "syllables", word |-> word, ret |-> calculate_syllable_count(word)]
    /\ PureUnchanged

\* score_to_level(score, lang), score in tenths; the call before it, if it was
\* one for the same language, is kept for comparison
ScoreToLevel(score, lang) ==
    LET has_prev == last.op = "score_to_level" /\ last.language = lang
    IN  /\ last' = [op |-> "score_to_level", score |-> score, language |-> lang,
                    level |-> score_to_level(Rat(score, 10), lang),
                    has_prev |-> has_prev,
                    prev_score |-> IF has_prev THEN last.score ELSE 0,
                    prev_level |-> IF has_prev THEN last.level ELSE 0]
        /\ PureUnchanged

\* the IPA strings calculate_phoneme_complexity is called with: empty, without
\* any segment, with segments of 16, 21 and 24 marked features, with a
\* segment that has no feature vector
IpaStrings ==
    { <<>>, <<" ", "!">>, <<"a">>, <<"t">>, <<"h", "u", "n", "t">>, <<"v">>,
      <<"h", "a", "v", "e">>, <<"d", "o", "g", ",">>, <<"E", " ", "n">> }

\* analyzer.calculate_phoneme_complexity(ipa)
PhonemeComplexity(ipa) ==
    /\ analyzer = "ready"
    /\ last' = [op |-> "phoneme_complexity", ipa |-> ipa,
                ret |-> calculate_phoneme_complexity(ipa)]
    /\ PureUnchanged

NextPure ==
    \/ \E w \in AoaWords, f \in BOOLEAN : GetAoa(w, f)
    \/ \E ipa \in IpaStrings : PhonemeComplexity(ipa)
    \/ \E w \in SyllableWords : SyllableCount(w)
    \/ \E s \in LevelScores, l \in LevelLangs : ScoreToLevel(s, l)

SpecPure == InitPure /\ [][NextPure]_vars

(***************************************************************************)
(* Calls of analyze_phrase running at the same time on the same caches     *)
(* (the threads of the batch driver's pool, or several processes): each    *)
(* read or write of a cache file and each external request is one step     *)
(***************************************************************************)

\* the phrases and languages of the concurrent calls
PoolPhrases == {<<>>, w_Hund, w_hund, Join(<<w_hund, w_Hund>>)}
PoolLangs == {"de", "de-DE"}

\* the number of phrases handed to the pool
MaxTasks == 2

\* the sequences over S of length n
RECURSIVE SeqsOf(_, _)
SeqsOf(S, n) ==
    IF n = 0 THEN {<<>>} ELSE {<<x>> \o t : x \in S, t \in SeqsOf(S, n - 1)}

InitPool ==
    /\ aoa_store = _download_glasgow_norms(
                       [exists |-> FALSE, files |-> EmptyDir, built |-> FALSE],
                       [kind |-> "csv", rows |-> CsvTypical]).store
    /\ lemma_cache = EmptyDir
    /\ translation_cache = EmptyDir
    /\ lex_calls = EmptyDir
    /\ analyzer = "ready"
    /\ last = [op |-> "none"]
    /\ queue \in {[language |-> l, phrases |-> ps] :
                     l \in PoolLangs, ps \in SeqsOf(PoolPhrases, MaxTasks)}
    /\ pool = [w \in Workers |-> IdleWorker]
    /\ float_ties = NoTies
    /\ batch = NoBatch

PoolUnchanged == UNCHANGED <<aoa_store, analyzer, last, float_ties, batch>>

\* a free worker takes the next (phrase, lang) of executor.map and starts
\* analyze_phrase: lines 534-549
PoolStart(w) ==
    /\ pool[w].pc = "idle"
    /\ queue.phrases # <<>>
    /\ queue' = [queue EXCEPT !.phrases = Tail(@)]
    /\ LET phrase == Head(queue.phrases)
           language == queue.language
           words == Split(phrase)
       IN  pool' = [pool EXCEPT ![w] =
                IF words = <<>>
                THEN [IdleWorker EXCEPT !.pc = "done", !.phrase = phrase,
                                        !.language = language, !.kind = "empty",
                                        !.ret = [error |-> "Empty phrase", difficulty_score |-> 0]]
                ELSE [IdleWorker EXCEPT !.pc = "lemma_load", !.phrase = phrase,
                                        !.language = language, !.words = words]]
    /\ UNCHANGED <<lemma_cache, translation_cache, lex_calls>>
    /\ PoolUnchanged

\* get_lemma_from_wiktionary, lines 260-265: the cache is read
PoolLemmaLoad(w) ==
    /\ pool[w].pc = "lemma_load"
    /\ LET me == pool[w]
           cached == _load_lemma_from_cache(lemma_cache, me.language, Head(me.words))
       IN  pool' = [pool EXCEPT ![w] =
                IF cached.some THEN [me EXCEPT !.pc = "trans_load", !.lemma = cached.val]
                ELSE IF me.language \notin {"de", "en"}
                THEN [me EXCEPT !.pc = "done", !.kind = "raised",
                                !.ret = [error |-> "KeyError", difficulty_score |-> 0]]
                ELSE [me EXCEPT !.pc = "lemma_fetch"]]
    /\ UNCHANGED <<lemma_cache, translation_cache, lex_calls, queue>>
    /\ PoolUnchanged

\* get_lemma_from_wiktionary, lines 275-313 up to the write: the request
PoolLemmaFetch(w, resp) ==
    /\ pool[w].pc = "lemma_fetch"
    /\ LET me == pool[w]
           r == LemmaFromResponse(resp, Head(me.words), me.language)
       IN  /\ pool' = [pool EXCEPT ![w] =
                  [me EXCEPT !.pc = IF r.save THEN "lemma_save" ELSE "trans_load",
                             !.lemma = r.ret, !.pending = r.saved]]
           /\ lex_calls' = Counted(lex_calls, CacheFile(me.language, Head(me.words)))
    /\ UNCHANGED <<lemma_cache, translation_cache, queue>>
    /\ PoolUnchanged

\* _save_lemma_to_cache, line 104: open(cache_file, "w") creates the file or
\* truncates it; the text is still in the buffer of the writer
PoolLemmaSave(w) ==
    /\ pool[w].pc = "lemma_save"
    /\ LET me == pool[w]
       IN  /\ lemma_cache' = WriteFile(lemma_cache, CacheFile(me.language, Head(me.words)),
                                       <<>>)
           /\ pool' = [pool EXCEPT ![w] = [me EXCEPT !.pc = "lemma_write"]]
    /\ UNCHANGED <<translation_cache, lex_calls, queue>>
    /\ PoolUnchanged

\* _save_lemma_to_cache, line 105: f.write(lemma) and the close of the file
PoolLemmaWrite(w) ==
    /\ pool[w].pc = "lemma_write"
    /\ LET me == pool[w]
       IN  /\ lemma_cache' = WriteFile(lemma_cache, CacheFile(me.language, Head(me.words)),
                                       me.pending)
           /\ pool' = [pool EXCEPT ![w] = [me EXCEPT !.pc = "trans_load", !.pending = <<>>]]
    /\ UNCHANGED <<translation_cache, lex_calls, queue>>
    /\ PoolUnchanged

\* translate_to_english, lines 404-410: the cache is read
PoolTransLoad(w) ==
    /\ pool[w].pc = "trans_load"
    /\ LET me == pool[w]
           cached == _load_translation_from_cache(translation_cache, me.language, me.lemma)
       IN  pool' = [pool EXCEPT ![w] =
                IF me.language = "en"
                THEN [me EXCEPT !.pc = "word_rest", !.english = Lower(me.lemma)]
                ELSE IF cached.some
                THEN [me EXCEPT !.pc = "word_rest", !.english = cached.val]
                ELSE [me EXCEPT !.pc = "trans_fetch"]]
    /\ UNCHANGED <<lemma_cache, translation_cache, lex_calls, queue>>
    /\ PoolUnchanged

\* translate_to_english, lines 413-421: the call of the translator
PoolTransFetch(w, resp) ==
    /\ pool[w].pc = "trans_fetch"
    /\ LET me == pool[w]
       IN  pool' = [pool EXCEPT ![w] =
                IF resp.kind = "error"
                THEN [me EXCEPT !.pc = "done", !.kind = "raised",
                                !.ret = [error |-> "TranslationError", difficulty_score |-> 0]]
                ELSE [me EXCEPT !.pc = "trans_save",
                                !.english = TranslationResult(resp, me.lemma),
                                !.pending = TranslationResult(resp, me.lemma)]]
    /\ UNCHANGED <<lemma_cache, translation_cache, lex_calls, queue>>
    /\ PoolUnchanged

\* _save_translation_to_cache, line 79: open(cache_file, "w") creates the
\* file or truncates it
PoolTransSave(w) ==
    /\ pool[w].pc = "trans_save"
    /\ LET me == pool[w]
       IN  /\ translation_cache' = WriteFile(translation_cache,
                                             CacheFile(me.language, me.lemma), <<>>)
           /\ pool' = [pool EXCEPT ![w] = [me EXCEPT !.pc = "trans_write"]]
    /\ UNCHANGED <<lemma_cache, lex_calls, queue>>
    /\ PoolUnchanged

\* _save_translation_to_cache, line 80: f.write(translation) and the close
PoolTransWrite(w) ==
    /\ pool[w].pc = "trans_write"
    /\ LET me == pool[w]
       IN  /\ translation_cache' = WriteFile(translation_cache,
                                             CacheFile(me.language, me.lemma), me.pending)
           /\ pool' = [pool EXCEPT ![w] = [me EXCEPT !.pc = "word_rest", !.pending = <<>>]]
    /\ UNCHANGED <<lemma_cache, lex_calls, queue>>
    /\ PoolUnchanged

\* the rest of the loop body (lines 557-578) and, after the last word, the
\* record (lines 580-656)
PoolWordRest(w) ==
    /\ pool[w].pc = "word_rest"
    /\ LET me == pool[w]
           detail == WordDetail(aoa_store, Head(me.words), me.lemma, me.english, me.language)
           details == Append(me.word_details, detail)
           scores == IF detail.aoa.some THEN Append(me.aoa_scores, detail.aoa.val)
                     ELSE me.aoa_scores
       IN  pool' = [pool EXCEPT ![w] =
                IF Tail(me.words) # <<>>
                THEN [me EXCEPT !.pc = "lemma_load", !.words = Tail(me.words),
                                !.lemma = <<>>, !.english = <<>>,
                                !.word_details = details, !.aoa_scores = scores]
                ELSE [me EXCEPT !.pc = "done", !.words = <<>>, !.kind = "full",
                                !.lemma = <<>>, !.english = <<>>,
                                !.word_details = <<>>, !.aoa_scores = <<>>,
                                !.ret = PhraseRecord(me.phrase, me.language, Split(me.phrase),
                                                     scores, details)]]
    /\ UNCHANGED <<lemma_cache, translation_cache, lex_calls, queue>>
    /\ PoolUnchanged

\* the caller takes the result; the worker is free again
PoolCollect(w) ==
    /\ pool[w].pc = "done"
    /\ pool' = [pool EXCEPT ![w] = IdleWorker]
    /\ UNCHANGED <<lemma_cache, translation_cache, lex_calls, queue>>
    /\ PoolUnchanged

NextPool ==
    \E w \in Workers :
        \/ PoolStart(w)
        \/ PoolLemmaLoad(w)
        \/ \E resp \in LexResponses : PoolLemmaFetch(w, resp)
        \/ PoolLemmaSave(w)
        \/ PoolLemmaWrite(w)
        \/ PoolTransLoad(w)
        \/ \E resp \in TrResponses : PoolTransFetch(w, resp)
        \/ PoolTransSave(w)
        \/ PoolTransWrite(w)
        \/ PoolWordRest(w)
        \/ PoolCollect(w)

SpecPool == InitPool /\ [][NextPool]_vars

(***************************************************************************)
(* The batch driver (update-difficulty.py): main in its updating modes,    *)
(* the threads of its pool in calculate_phrase_difficulty and get_analyzer *)
(***************************************************************************)

\* the threads of the pool: num_workers = min(8, len(entries_to_update)),
\* here at most MaxThreads
MaxThreads == 2
Threads == 1..MaxThreads

\* the language tag main takes from the name of the phrases file
BatchLang == "de-DE"

\* an entry of the phrases file: its phrase, its level (0: the entry has no
\* "level"), and whether it has the old "difficulty" field
Entry(phrase, level, difficulty) ==
    [phrase |-> phrase, level |-> level, difficulty |-> difficulty]

BatchEntries ==
    { Entry(w_hund, 0, FALSE), Entry(w_hund, 5, FALSE), Entry(w_hund, 0, TRUE),
      Entry(<<>>, 0, FALSE), Entry(w_Hund, 0, FALSE) }

\* the phrases files: lists of MaxEntries entries
MaxEntries == 2
BatchFiles == SeqsOf(BatchEntries, MaxEntries)

\* the lemma cache the driver finds on disk: empty, or with a file for the
\* word under the language tag of the driver
BatchLemmaCaches ==
    { EmptyDir, WriteFile(EmptyDir, CacheFile(BatchLang, w_hund), w_hund) }

\* --phrase
BatchArg == w_hund
BatchModes == {"default", "update_all", "phrase"}

\* a result executor.map has not delivered yet
Pending == [phrase |-> <<>>, success |-> FALSE, error |-> "pending", score |-> 0, level |-> 0]

IdleThread == [pc |-> "idle", task |-> 0, mine |-> 0]

\* calculate_phrase_difficulty after get_analyzer: every way it can end, with
\* the caches after it. The record of an empty phrase has no
\* "difficulty_level", result["difficulty_level"] raises KeyError
calculate_phrase_difficulty(store, lc, tc, lexn, phrase, lang) ==
    { [lc |-> o.lc, tc |-> o.tc, lexn |-> o.lexn,
       res |-> IF o.kind = "raised"
               THEN [phrase |-> phrase, success |-> FALSE, error |-> o.raised,
                     score |-> 0, level |-> 0]
               ELSE IF o.kind = "empty"
               THEN [phrase |-> phrase, success |-> FALSE, error |-> "'difficulty_level'",
                     score |-> 0, level |-> 0]
               ELSE [phrase |-> phrase, success |-> TRUE, error |-> "",
                     score |-> o.ret.difficulty_score,
                     level |-> score_to_level(Rat(o.ret.difficulty_score, 10), lang)]]
      : o \in analyze_phrase(store, lc, tc, lexn, phrase, lang) }

\* the positions of the entries main selects (lines 242-251)
EntriesToUpdate(phrases, mode) ==
    SelectSeq([i \in 1..Len(phrases) |-> i],
              LAMBDA i : CASE mode = "phrase" -> phrases[i].phrase = BatchArg
                           [] mode = "update_all" -> TRUE
                           [] OTHER -> phrases[i].level = 0)

\* the updates of the results that succeeded (lines 271-283)
RECURSIVE Updates(_)
Updates(results) ==
    IF results = <<>> THEN <<>>
    ELSE (IF Head(results).success
          THEN << [phrase |-> Head(results).phrase, level |-> Head(results).level] >>
          ELSE <<>>) \o Updates(Tail(results))

\* the loop of lines 296-303: an update goes to the first entry of the list
\* that has its phrase
RECURSIVE ApplyUpdates(_, _)
ApplyUpdates(phrases, updates) ==
    IF updates = <<>> THEN phrases
    ELSE LET update == Head(updates)
             found == {i \in 1..Len(phrases) : phrases[i].phrase = update.phrase}
         IN  IF found = {} THEN ApplyUpdates(phrases, Tail(updates))
             ELSE ApplyUpdates([phrases EXCEPT ![MinOf(found)] =
                                    [@ EXCEPT !.level = update.level, !.difficulty = FALSE]],
                               Tail(updates))

InitBatch ==
    /\ aoa_store = _download_glasgow_norms(
                       [exists |-> FALSE, files |-> EmptyDir, built |-> FALSE],
                       [kind |-> "csv", rows |-> CsvTypical]).store
    /\ lemma_cache \in BatchLemmaCaches
    /\ translation_cache = EmptyDir
    /\ lex_calls = EmptyDir
    /\ analyzer = "none"
    /\ last = [op |-> "none"]
    /\ queue = NoQueue
    /\ pool = [w \in Workers |-> IdleWorker]
    /\ float_ties = NoTies
    /\ batch \in { [pc |-> "main", file |-> f, phrases |-> <<>>, mode |-> "",
                    selected |-> <<>>, next |-> 1, results |-> <<>>,
                    instance |-> 0, constructed |-> 0, end |-> 0,
                    threads |-> [t \in Threads |-> IdleThread]] : f \in BatchFiles }

BatchUnchanged == UNCHANGED <<aoa_store, last, queue, pool, float_ties>>

\* main up to the start of the pool (lines 150-262): the file is loaded (the
\* list stays in batch.phrases as it was loaded), the entries are selected
BatchMain(mode) ==
    /\ batch.pc = "main"
    /\ LET phrases == batch.file
           selected == EntriesToUpdate(phrases, mode)
       IN  batch' = IF selected = <<>>
                    THEN [batch EXCEPT !.pc = "exit", !.phrases = phrases, !.mode = mode,
                                       !.end = IF mode = "phrase" THEN 1 ELSE 0]
                    ELSE [batch EXCEPT !.pc = "pool", !.phrases = phrases, !.mode = mode,
                                       !.selected = selected,
                                       !.results = [i \in 1..Len(selected) |-> Pending]]
    /\ UNCHANGED <<lemma_cache, translation_cache, lex_calls, analyzer>>
    /\ BatchUnchanged

\* a thread of the pool takes the next argument of executor.map
BatchTake(t) ==
    /\ batch.pc = "pool"
    /\ t <= Min(MaxThreads, Len(batch.selected))
    /\ batch.threads[t].pc = "idle"
    /\ batch.next <= Len(batch.selected)
    /\ batch' = [batch EXCEPT !.next = @ + 1,
                              !.threads[t] = [pc |-> "check", task |-> batch.next, mine |-> 0]]
    /\ UNCHANGED <<lemma_cache, translation_cache, lex_calls, analyzer>>
    /\ BatchUnchanged

\* get_analyzer, line 54: if _analyzer_instance is None
BatchCheck(t) ==
    /\ batch.pc = "pool"
    /\ batch.threads[t].pc = "check"
    /\ batch' = [batch EXCEPT !.threads[t].pc =
                                  IF batch.instance = 0 THEN "construct" ELSE "return"]
    /\ UNCHANGED <<lemma_cache, translation_cache, lex_calls, analyzer>>
    /\ BatchUnchanged

\* get_analyzer, line 55: _analyzer_instance = PhraseDifficultyAnalyzer(); the
\* store directory exists, _load_aoa_data downloads nothing
BatchConstruct(t) ==
    /\ batch.pc = "pool"
    /\ batch.threads[t].pc = "construct"
    /\ _load_aoa_data(aoa_store, [kind |-> "error", rows |-> <<>>]).end = "ok"
    /\ batch' = [batch EXCEPT !.constructed = @ + 1, !.instance = batch.constructed + 1,
                              !.threads[t].pc = "return"]
    /\ analyzer' = "ready"
    /\ UNCHANGED <<lemma_cache, translation_cache, lex_calls>>
    /\ BatchUnchanged

\* get_analyzer, line 56: return _analyzer_instance
BatchReturn(t) ==
    /\ batch.pc = "pool"
    /\ batch.threads[t].pc = "return"
    /\ batch' = [batch EXCEPT !.threads[t].pc = "analyze",
                              !.threads[t].mine = batch.instance]
    /\ UNCHANGED <<lemma_cache, translation_cache, lex_calls, analyzer>>
    /\ BatchUnchanged

\* calculate_phrase_difficulty, lines 64-90, with the analyzer obtained
BatchAnalyze(t) ==
    /\ batch.pc = "pool"
    /\ batch.threads[t].pc = "analyze"
    /\ LET me == batch.threads[t]
           phrase == batch.phrases[batch.selected[me.task]].phrase
       IN  \E o \in calculate_phrase_difficulty(aoa_store, lemma_cache, translation_cache,
                                                lex_calls, phrase, BatchLang) :
              /\ lemma_cache' = o.lc
              /\ translation_cache' = o.tc
              /\ lex_calls' = o.lexn
              /\ batch' = [batch EXCEPT !.results[me.task] = o.res,
                                        !.threads[t].pc = "idle"]
    /\ UNCHANGED analyzer
    /\ BatchUnchanged

\* main after the pool (lines 271-317): the updates are collected and applied,
\* the file is written; without any update main exits with 1
BatchFinish ==
    /\ batch.pc = "pool"
    /\ batch.next > Len(batch.selected)
    /\ \A t \in Threads : batch.threads[t].pc = "idle"
    /\ LET updates == Updates(batch.results)
       IN  batch' = IF updates = <<>>
                    THEN [batch EXCEPT !.pc = "exit", !.end = 1]
                    ELSE [batch EXCEPT !.pc = "written",
                                       !.file = ApplyUpdates(batch.phrases, updates)]
    /\ UNCHANGED <<lemma_cache, translation_cache, lex_calls, analyzer>>
    /\ BatchUnchanged

NextBatch ==
    \/ \E mode \in BatchModes : BatchMain(mode)
    \/ \E t \in Threads : BatchTake(t)
    \/ \E t \in Threads : BatchCheck(t)
    \/ \E t \in Threads : BatchConstruct(t)
    \/ \E t \in Threads : BatchReturn(t)
    \/ \E t \in Threads : BatchAnalyze(t)
    \/ BatchFinish

SpecBatch == InitBatch /\ [][NextBatch]_vars

(***************************************************************************)
(* Properties                                                              *)
(***************************************************************************)

Returned == last.op = "analyze_phrase" /\ last.kind # "raised"
ReturnedFull == last.op = "analyze_phrase" /\ last.kind = "full"

\* the sum of the five reported score components, in tenths
ComponentSum ==
    LET c == last.ret.score_components
    IN  c.length_score + c.word_count_score + c.aoa_score + c.syllable_score
        + c.phoneme_score

\* C1: the difficulty_score of every record analyze_phrase returns lies in
\* [0, 100] (scores are in tenths)
C1_ScoreInRange ==
    Returned => 0 <= last.ret.difficulty_score /\ last.ret.difficulty_score <= 1000

\* C2 as claimed: the five reported score components sum to the reported
\* difficulty_score
C2_ComponentsSumExactly ==
    ReturnedFull => ComponentSum = last.ret.difficulty_score

\* C2 as amended: the five reported score components, each rounded to one
\* decimal on its own, sum to within 0.2 of the reported difficulty_score
C2_ComponentsSumWithinRounding ==
    ReturnedFull => Abs(ComponentSum - last.ret.difficulty_score) <= 2

\* C2 witness: a returned record whose components do not add up to its score
C2_Witness ==
    ReturnedFull /\ ComponentSum # last.ret.difficulty_score

\* C3: each reported score component is at most its cap: 25, 10, 40, 10, 15
C3_ComponentsCapped ==
    ReturnedFull =>
        LET c == last.ret.score_components
        IN  /\ c.length_score <= 250
            /\ c.word_count_score <= 100
            /\ c.aoa_score <= 400
            /\ c.syllable_score <= 100
            /\ c.phoneme_score <= 150

\* C3 witness: a record with the length, AoA and syllable components at their
\* caps (a 16-letter word of 5 syllables with an AoA above 18)
C3_Witness ==
    /\ ReturnedFull
    /\ last.ret.char_count > 15 * last.ret.word_count
    /\ last.ret.total_syllables > 4 * last.ret.word_count
    /\ last.ret.avg_aoa.val > 1800
    /\ last.ret.score_components.length_score = 250
    /\ last.ret.score_components.aoa_score = 400
    /\ last.ret.score_components.syllable_score = 100

\* C4: analyze_phrase never raises once the analyzer (and so the AoA store)
\* exists
C4_NeverRaises ==
    last.op = "analyze_phrase" => last.kind # "raised"

\* C5: when the request to the lexical reference fails, get_lemma_from_wiktionary
\* returns the word, has written word -> word to the lemma cache and raises nothing
C5_LemmaFailureFallsBack ==
    (last.op = "get_lemma" /\ last.resp = "error") =>
        /\ last.raised = ""
        /\ last.ret = last.word
        /\ CacheFile(last.language, last.word) \in DOMAIN lemma_cache
        /\ lemma_cache[CacheFile(last.language, last.word)] = last.word

\* C5 witness: a call whose request failed
C5_Witness ==
    last.op = "get_lemma" /\ last.resp = "error"

\* C6: the lexical reference is asked at most once per cache key, and a key
\* that was asked for is cached
C6_LexicalLookupAtMostOnce ==
    \A k \in DOMAIN lex_calls :
        lex_calls[k] <= 1 /\ k \in DOMAIN lemma_cache

\* C6 witness: a call answered from the cache for a key asked for once before
C6_Witness ==
    /\ last.op = "get_lemma"
    /\ last.resp = "hit"
    /\ Count(lex_calls, CacheFile(last.language, last.word)) = 1

\* C9: a phrase is analysed only when the construction of the AoA store ran
\* to its end
C9_NoAnalysisWithoutBuiltStore ==
    last.op = "analyze_phrase" => aoa_store.built

\* C10: a call that repeats the last call (same phrase and language, nothing
\* in between) returns, with the same difficulty_score
C10_RerunSameScore ==
    (last.op = "analyze_phrase" /\ last.rerun) =>
        last.kind # "raised" /\ last.ret.difficulty_score = last.before

\* C10 witness: a repeated call for a German phrase of two words
C10_Witness ==
    /\ last.op = "analyze_phrase"
    /\ last.rerun
    /\ last.kind = "full"
    /\ last.language = "de"
    /\ last.ret.word_count = 2

\* C7: the caches are append-only: a step never removes a cache file nor
\* changes the content of one that exists
C7_CachesAppendOnly ==
    [][ /\ \A k \in DOMAIN lemma_cache :
              k \in DOMAIN lemma_cache' /\ lemma_cache'[k] = lemma_cache[k]
        /\ \A k \in DOMAIN translation_cache :
              k \in DOMAIN translation_cache' /\ translation_cache'[k] = translation_cache[k]
      ]_vars

\* C8: workers that missed the lemma (translation) cache for the same key and
\* are about to write it hold the same value
C8_ConcurrentWritersAgree ==
    \A v, w \in Workers :
        /\ (/\ pool[v].pc = "lemma_save" /\ pool[w].pc = "lemma_save"
            /\ CacheFile(pool[v].language, Head(pool[v].words))
                 = CacheFile(pool[w].language, Head(pool[w].words)))
           => pool[v].pending = pool[w].pending
        /\ (/\ pool[v].pc = "trans_save" /\ pool[w].pc = "trans_save"
            /\ CacheFile(pool[v].language, pool[v].lemma)
                 = CacheFile(pool[w].language, pool[w].lemma))
           => pool[v].pending = pool[w].pending

\* C11: for language "en" a call of analyze_phrase or of translate_to_english
\* makes no call of the translator and leaves the translation cache as it is;
\* translate_to_english returns before it reads the cache
C11_EnglishNoTranslationCall ==
    [][ (last'.op \in {"analyze_phrase", "translate"} /\ last'.language = "en") =>
            /\ last'.tr_calls = 0
            /\ translation_cache' = translation_cache
            /\ (last'.op = "translate" =>
                    last'.resp = "none" /\ last'.ret = Lower(last'.word))
      ]_vars

\* C11 witness: an English phrase analysed to its end while the translation
\* cache holds entries
C11_Witness ==
    /\ last.op = "analyze_phrase"
    /\ last.language = "en"
    /\ last.kind = "full"
    /\ translation_cache # EmptyDir

\* C12: score_to_level returns a level from 1 to 1000
C12_LevelInRange ==
    last.op = "score_to_level" => (last.level \in Int /\ 1 <= last.level /\ last.level <= 1000)

\* C12 witness: a call clamped to 1 followed by a call clamped to 1000
C12_Witness ==
    /\ last.op = "score_to_level"
    /\ last.has_prev
    /\ last.language = "de-DE"
    /\ last.prev_score < 228 /\ last.prev_level = 1
    /\ last.score > 660 /\ last.level = 1000

\* C13: within one language a higher score never gets a lower level
C13_LevelMonotone ==
    (last.op = "score_to_level" /\ last.has_prev /\ last.prev_score <= last.score)
        => last.prev_level <= last.level

\* C13 witness: two calls for one calibrated language with different levels
\* strictly inside 1..1000
C13_Witness ==
    /\ last.op = "score_to_level"
    /\ last.has_prev
    /\ last.language = "de-DE"
    /\ last.prev_score < last.score
    /\ 1 < last.prev_level /\ last.prev_level < last.level /\ last.level < 1000

\* C14: for a word without entry in the AoA store get_aoa returns 16.0 with
\* the adult fallback and None without it
C14_MissingWordFallback ==
    (last.op = "get_aoa" /\ Strip(Lower(last.word)) \notin DOMAIN aoa_store.files) =>
        IF last.fallback THEN last.ret = Some(RInt(16)) ELSE ~last.ret.some

\* C14 witness: a call without fallback for a word the store does not have
C14_Witness ==
    /\ last.op = "get_aoa"
    /\ last.word = <<"z", "z", "z", "q", "q", "q">>
    /\ ~last.fallback
    /\ ~last.ret.some

\* C15: a word whose alphanumeric-stripped lower-case form is in the AoA
\* store gets the stored value of that form
C15_StrippedVariantFound ==
    (last.op = "get_aoa" /\ WordClean(last.word) \in DOMAIN aoa_store.files) =>
        last.ret = Some(aoa_store.files[WordClean(last.word)])

\* C17: calculate_syllable_count is the number of positions where a vowel
\* follows a non-vowel or the start, at least 1, and 1 for the empty string
C17_SyllableCount ==
    last.op = "syllables" =>
        LET w == last.word
            entries == {i \in 1..Len(w) : /\ w[i] \in Vowels
                                          /\ (i = 1 \/ w[i - 1] \notin Vowels)}
        IN  /\ last.ret = Max(1, Cardinality(entries))
            /\ last.ret >= 1
            /\ (w = <<>> => last.ret = 1)

\* C17 witness: a word without vowels, counted as one syllable
C17_Witness ==
    last.op = "syllables" /\ last.word = <<"x", "y", "z">> /\ last.ret = 1

\* C16: analyze_phrase of an empty or whitespace-only phrase returns the
\* error record with difficulty_score 0, raises nothing, makes no external
\* lookup and writes no cache entry
C16_EmptyPhraseRejected ==
    [][ (last'.op = "analyze_phrase"
            /\ \A i \in 1..Len(last'.phrase) : IsSpace(last'.phrase[i])) =>
            /\ last'.kind = "empty"
            /\ last'.raised = ""
            /\ last'.ret = [error |-> "Empty phrase", difficulty_score |-> 0]
            /\ last'.tr_calls = 0
            /\ lex_calls' = lex_calls
            /\ lemma_cache' = lemma_cache
            /\ translation_cache' = translation_cache
      ]_vars

\* C16 witness: a whitespace-only phrase rejected for a language tag of the
\* batch driver
C16_Witness ==
    /\ last.op = "analyze_phrase"
    /\ last.phrase = <<" ", "\t">>
    /\ last.language = "de-DE"
    /\ last.kind = "empty"

\* the bucket of a score given in tenths
BucketOf(tenths) ==
    IF tenths < 200 THEN "Very Easy"
    ELSE IF tenths < 400 THEN "Easy"
    ELSE IF tenths < 600 THEN "Medium"
    ELSE IF tenths < 800 THEN "Hard"
    ELSE "Very Hard"

AoaOfDetails == [i \in 1..Len(last.ret.word_details) |-> last.ret.word_details[i].aoa]

\* C19: for language "en" the aoa of each word is the one get_aoa gives for
\* the lower-cased word itself, whatever its lemma
C19_EnglishAoaUnderSurfaceWord ==
    (ReturnedFull /\ last.language = "en") =>
        \A i \in 1..Len(last.ret.word_details) :
            last.ret.word_details[i].aoa
                = get_aoa(aoa_store, Lower(last.ret.word_details[i].word), TRUE)

\* C20: avg_aoa of a returned record is defined and is the mean (to two
\* decimals) of the aoa of all its words, each of which is defined
C20_AvgAoaDefinedMean ==
    ReturnedFull =>
        /\ \A i \in 1..Len(AoaOfDetails) : AoaOfDetails[i].some
        /\ last.ret.avg_aoa.some
        /\ last.ret.avg_aoa.val
             = Round2(RDiv(RSum([i \in 1..Len(AoaOfDetails) |-> AoaOfDetails[i].val]),
                           RInt(Len(AoaOfDetails))))

\* C22: when the entry does not exist, or the first entry block of the
\* language's section carries no inflected-form tag, get_lemma_from_wiktionary
\* returns the word and caches word -> word; it returns another base form
\* only when that block carries the tag
C22_BaseFormOnlyWithTag ==
    (last.op = "get_lemma" /\ last.resp \in {"missing", "page"}) =>
        LET section == _extract_language_section(last.entry, last.language)
            first_tagged == last.resp = "page" /\ section # <<>> /\ section[1].tag
        IN  /\ ~first_tagged =>
                  /\ last.ret = last.word
                  /\ lemma_cache[CacheFile(last.language, last.word)] = last.word
            /\ last.ret # last.word => first_tagged

\* C21: the phoneme_complexity of a returned record is the mean of the
\* per-word values that are defined and above 0, and 0.75 if there is none
C21_AggregateComplexity ==
    ReturnedFull =>
        LET wd == last.ret.word_details
            qualifying == {i \in 1..Len(wd) : /\ wd[i].phoneme_complexity.some
                                              /\ RLess(RInt(0), wd[i].phoneme_complexity.val)}
            values == [k \in 1..Cardinality(qualifying) |->
                          wd[Nth(qualifying, k)].phoneme_complexity.val]
        IN  last.ret.phoneme_complexity
              = IF qualifying = {} THEN Rat(3, 4)
                ELSE RDiv(RSum(values), RInt(Cardinality(qualifying)))

\* C21 witness: a record of two words, one with a complexity above 0 and one
\* with the complexity 0.0, which the mean leaves out
C21_Witness ==
    /\ ReturnedFull
    /\ last.ret.word_count = 2
    /\ last.ret.word_details[2].phoneme_complexity = Some(RInt(0))
    /\ last.ret.phoneme_complexity = last.ret.word_details[1].phoneme_complexity.val
    /\ RLess(RInt(0), last.ret.phoneme_complexity)

\* the share of marked features of a segment, 1 without feature vector
Contribution(segment) ==
    LET features == word_to_vector_list(segment)
    IN  IF features = <<>> THEN RInt(1)
        ELSE Rat(Cardinality({i \in 1..Len(features[1]) : features[1][i] # 0}),
                 Len(features[1]))

ExactProduct(score, lang) ==
    IF lang \in DOMAIN ScoreRanges
    THEN RMul(RDiv(RSub(Rat(score, 10), ScoreRanges[lang].min),
                   RSub(ScoreRanges[lang].max, ScoreRanges[lang].min)), RInt(999))
    ELSE RInt(score)

Clamp(x, lo, hi) == IF x < lo THEN lo ELSE IF x > hi THEN hi ELSE x

\* 1 for the calibrated languages, 0 for the others
LevelOffset(lang) == IF lang \in DOMAIN ScoreRanges THEN 1 ELSE 0

\* C23 as claimed: the level is clamp(round(product) + 1, 1, 1000) for a
\* calibrated language and clamp(round(score * 10), 1, 1000) for any other,
\* with round() taken of the exact value
C23_LevelEqualsFormula ==
    last.op = "score_to_level" =>
        last.level = Clamp(RoundTo(ExactProduct(last.score, last.language), 1)
                             + LevelOffset(last.language), 1, 1000)

\* C23 as amended: the level is the one of the formula wherever the exact
\* product is not halfway between two integers; where it is, the level is one
\* of the two neighbouring ones; the lower end of a range gets 1, the upper
\* end 1000
C23_LevelFormulaUpToTies ==
    last.op = "score_to_level" =>
        LET product == ExactProduct(last.score, last.language)
            q == FloorDiv(product[1], product[2])
            offset == LevelOffset(last.language)
        IN  /\ IF IsTie(product)
               THEN last.level \in {Clamp(q + offset, 1, 1000), Clamp(q + 1 + offset, 1, 1000)}
               ELSE last.level = Clamp(RoundTo(product, 1) + offset, 1, 1000)
            /\ (last.language \in DOMAIN ScoreRanges
                  /\ Rat(last.score, 10) = ScoreRanges[last.language].min) => last.level = 1
            /\ (last.language \in DOMAIN ScoreRanges
                  /\ Rat(last.score, 10) = ScoreRanges[last.language].max) => last.level = 1000

\* C23 witness: the score 23.6 for de-DE, whose exact product is 18.5, with
\* the level 20 the float computation gives
C23_Witness ==
    /\ last.op = "score_to_level"
    /\ last.language = "de-DE"
    /\ last.score = 236
    /\ IsTie(ExactProduct(last.score, last.language))
    /\ last.level = 20

\* C25: a lemma-cache hit for a surface word returns a value that the lookup
\* of that very word can give: two different surface words of one language
\* (differing in letter case or punctuation) never share a cache entry
C25_CacheHitOwnValue ==
    (last.op = "get_lemma" /\ last.resp = "hit")
        => \E resp \in LexResponses :
              LemmaFromResponse(resp, last.word, last.language).ret = last.ret

\* C26: a worker never takes the content of a cache file another worker has
\* opened for writing but not yet written as the cached value: the English
\* word a worker goes on with is never the empty string
C26_NoTornCacheRead ==
    \A w \in Workers : pool[w].pc = "word_rest" => pool[w].english # <<>>

\* C28: the AoA store is accepted only when its construction ran to its end:
\* a construction of the analyzer that succeeds leaves a store that was built
\* completely (it rebuilds a partial store, or fails)
C28_ConstructOnlyOnCompleteStore ==
    (last.op = "construct" /\ last.end = "ok") => aoa_store.built

\* C27: concurrent calls of get_analyzer construct at most one analyzer per
\* process, and every thread obtains that same instance
C27_OneAnalyzer ==
    /\ batch.constructed <= 1
    /\ \A t, u \in Threads :
          (batch.threads[t].mine # 0 /\ batch.threads[u].mine # 0)
              => batch.threads[t].mine = batch.threads[u].mine

C30_EmptyPhraseReported ==
    \A k \in 1..Len(batch.results) :
        (batch.results[k] # Pending /\ Split(batch.results[k].phrase) = <<>>)
            => batch.results[k].success /\ batch.results[k].score = 0

==============================================================================
